---- MODULE Spec2Model ----
(***************************************************************************)
(* Model of the tool layer of jupetta/main.py: the five BaseTool._run      *)
(* methods (GetVersion, GetRouteTable, GetRouteProtoState, Ping,           *)
(* IfaceConfig), the netmiko session each of them opens with               *)
(* `with ConnectHandler` block, and extract_version.                       *)
(*                                                                         *)
(* Strings the code inspects character by character (tool arguments, the   *)
(* output of `show run interface`, the output of `show version`) are       *)
(* sequences of one-character strings.  Fixed texts that the code only     *)
(* passes along (markers, exception messages) are TLA+ strings.            *)
(***************************************************************************)
EXTENDS Integers, Sequences, FiniteSets, TLC

----------------------------------------------------------------------------
(* Bounds *)

\* longest run of successful IfaceConfig calls with one argument
MaxRun == 3
\* number of pieces a `show version` output is assembled from
MaxPieces == 3

----------------------------------------------------------------------------
(* Python str primitives used by the code *)

UpperChars ==
  <<"A","B","C","D","E","F","G","H","I","J","K","L","M",
    "N","O","P","Q","R","S","T","U","V","W","X","Y","Z">>

LowerChars ==
  <<"a","b","c","d","e","f","g","h","i","j","k","l","m",
    "n","o","p","q","r","s","t","u","v","w","x","y","z">>

DigitChars == {"0","1","2","3","4","5","6","7","8","9"}

\* whitespace as str.split(), str.strip() and the regex class \s see it
\* (inside one line)
IsSpace(c) == c \in {" ", "\t"}

\* line boundaries of str.splitlines()
IsLineBreak(c) == c \in {"\n", "\r"}

LowerChar(c) ==
  IF \E i \in 1..26 : UpperChars[i] = c
    THEN LowerChars[CHOOSE i \in 1..26 : UpperChars[i] = c]
    ELSE c

\* str.lower()
Lower(s) == [i \in 1..Len(s) |-> LowerChar(s[i])]

\* str.startswith(p)
StartsWith(s, p) == Len(s) >= Len(p) /\ SubSeq(s, 1, Len(p)) = p

\* `p in s`
Contains(s, p) ==
  \E i \in 1..(Len(s) - Len(p) + 1) : SubSeq(s, i, i + Len(p) - 1) = p

LStrip(s) ==
  IF \A i \in 1..Len(s) : IsSpace(s[i])
    THEN << >>
    ELSE LET f == CHOOSE i \in 1..Len(s) :
                    /\ ~IsSpace(s[i])
                    /\ \A j \in 1..(i-1) : IsSpace(s[j])
         IN  SubSeq(s, f, Len(s))

RStrip(s) ==
  IF \A i \in 1..Len(s) : IsSpace(s[i])
    THEN << >>
    ELSE LET l == CHOOSE i \in 1..Len(s) :
                    /\ ~IsSpace(s[i])
                    /\ \A j \in (i+1)..Len(s) : IsSpace(s[j])
         IN  SubSeq(s, 1, l)

\* str.strip()
Strip(s) == RStrip(LStrip(s))

\* str.split(maxsplit=1): leading whitespace is dropped, the first token is
\* cut at the first whitespace, the remainder keeps everything after the
\* whitespace that follows the first token (trailing whitespace included)
SplitMax1(s) ==
  LET t == LStrip(s) IN
  IF t = << >> THEN << >>
  ELSE LET e == IF \E i \in 1..Len(t) : IsSpace(t[i])
                  THEN CHOOSE i \in 1..Len(t) :
                         /\ IsSpace(t[i])
                         /\ \A j \in 1..(i-1) : ~IsSpace(t[j])
                  ELSE Len(t) + 1
           first == SubSeq(t, 1, e - 1)
           rest  == LStrip(SubSeq(t, e, Len(t)))
       IN  IF rest = << >> THEN << first >> ELSE << first, rest >>

----------------------------------------------------------------------------
(* Literals *)

cSHUTDOWN   == <<"s","h","u","t","d","o","w","n">>
cSHUT       == <<"s","h","u","t">>
cVERSION    == <<"V","e","r","s","i","o","n">>
cINTERFACE  == <<"i","n","t","e","r","f","a","c","e"," ">>
cIPV6       == <<"i","p","v","6">>
cBGP        == <<"b","g","p">>
cOSPF       == <<"o","s","p","f">>
cGI1        == <<"G","i","0","/","1">>
cGI2        == <<"G","i","0","/","2">>

cIPV4       == <<"i","p","v","4">>
cTOKEN      == <<"1",".","(","M",")">>
cNOTFOUND   == <<"[","V","e","r","s","i","o","n"," ","l","i","n","e"," ","n","o","t"," ","f","o","u","n","d","]">>
cEXAMPLE    ==
  <<"C","i","s","c","o"," ","I","O","S"," ","S","o","f","t","w","a","r","e",","," ","V","e","r","s","i","o","n"," ","1","5",".","2","(","4",")","M","3",","," ","R","E","L","E","A","S","E"," ","S","O","F","T","W","A","R","E">>

----------------------------------------------------------------------------
(* extract_version *)

\* str.splitlines(): the lines between line breaks, "\r\n" being one break
RECURSIVE SplitLines(_)
SplitLines(s) ==
  IF s = << >> THEN << >>
  ELSE IF \E i \in 1..Len(s) : IsLineBreak(s[i])
    THEN LET b == CHOOSE i \in 1..Len(s) :
                    /\ IsLineBreak(s[i])
                    /\ \A j \in 1..(i-1) : ~IsLineBreak(s[j])
             w == IF s[b] = "\r" /\ b < Len(s) /\ s[b+1] = "\n" THEN 2 ELSE 1
         IN  << SubSeq(s, 1, b - 1) >> \o SplitLines(SubSeq(s, b + w, Len(s)))
    ELSE << s >>

\* the class [A-Za-z0-9.()]
IsClassChar(c) ==
  \/ c \in DigitChars
  \/ \E i \in 1..26 : UpperChars[i] = c \/ LowerChars[i] = c
  \/ c \in {".", "(", ")"}

\* first index at or after i that is not whitespace (Len+1 when none)
SkipSpaces(line, i) ==
  IF \E j \in i..Len(line) : ~IsSpace(line[j])
    THEN CHOOSE j \in i..Len(line) :
           ~IsSpace(line[j]) /\ \A k \in i..(j-1) : IsSpace(line[k])
    ELSE Len(line) + 1

\* first index at or after i that is not in the class (Len+1 when none)
SkipClass(line, i) ==
  IF \E j \in i..Len(line) : ~IsClassChar(line[j])
    THEN CHOOSE j \in i..Len(line) :
           ~IsClassChar(line[j]) /\ \A k \in i..(j-1) : IsClassChar(line[k])
    ELSE Len(line) + 1

\* VERSION_REGEX matches with "Version" starting at index i
MatchAt(line, i) ==
  /\ i + 8 <= Len(line)
  /\ SubSeq(line, i, i + 6) = cVERSION
  /\ IsSpace(line[i + 7])
  /\ SkipSpaces(line, i + 7) <= Len(line)
  /\ IsClassChar(line[SkipSpaces(line, i + 7)])

\* VERSION_REGEX.search(line): << >> for None, else << group(1) >> of the
\* leftmost match, the group being the longest run of class characters
VERSION_REGEX_search(line) ==
  IF \E i \in 1..Len(line) : MatchAt(line, i)
    THEN LET i == CHOOSE i \in 1..Len(line) :
                    MatchAt(line, i) /\ \A j \in 1..(i-1) : ~MatchAt(line, j)
             g == SkipSpaces(line, i + 7)
         IN  << SubSeq(line, g, SkipClass(line, g) - 1) >>
    ELSE << >>

\* extract_version that looks for a regex match in every line before it
\* falls back to the first line containing "Version"
extract_version_anyLine(show_ver_output) ==
  LET lines == SplitLines(show_ver_output) IN
  IF \E n \in 1..Len(lines) : VERSION_REGEX_search(lines[n]) # << >>
    THEN LET n == CHOOSE n \in 1..Len(lines) :
                    /\ VERSION_REGEX_search(lines[n]) # << >>
                    /\ \A k \in 1..(n-1) : VERSION_REGEX_search(lines[k]) = << >>
         IN  VERSION_REGEX_search(lines[n])[1]
    ELSE IF \E n \in 1..Len(lines) : Contains(lines[n], cVERSION)
      THEN LET n == CHOOSE n \in 1..Len(lines) :
                      /\ Contains(lines[n], cVERSION)
                      /\ \A k \in 1..(n-1) : ~Contains(lines[k], cVERSION)
           IN  Strip(lines[n])
      ELSE cNOTFOUND

extract_version(show_ver_output) ==
  LET lines == SplitLines(show_ver_output) IN
  IF \E n \in 1..Len(lines) : Contains(lines[n], cVERSION)
    THEN LET n == CHOOSE n \in 1..Len(lines) :
                    /\ Contains(lines[n], cVERSION)
                    /\ \A k \in 1..(n-1) : ~Contains(lines[k], cVERSION)
             m == VERSION_REGEX_search(lines[n])
         IN  IF m # << >> THEN m[1] ELSE Strip(lines[n])
    ELSE cNOTFOUND

----------------------------------------------------------------------------
(* Inputs *)

\* pieces a `show version` output is assembled from
VersionPieces ==
  << cVERSION, <<" ">>, cTOKEN, <<",">>, <<"\n">>, cVERSION \o <<" ">> \o cTOKEN >>

RECURSIVE Assemble(_)
Assemble(ix) ==
  IF ix = << >> THEN << >> ELSE VersionPieces[Head(ix)] \o Assemble(Tail(ix))

\* every concatenation of at most MaxPieces pieces, and the spec's example
VersionInputs ==
  { Assemble(ix) : ix \in UNION { [1..n -> 1..Len(VersionPieces)] : n \in 0..MaxPieces } }
    \cup { cEXAMPLE }

Sp == <<" ">>

\* arguments handed to GetRouteTable._run
RouteTableArgs ==
  { cIPV4, cIPV6, <<"I","P","v","6">>, << >>, <<"x">> }

\* arguments handed to GetRouteProtoState._run
RouteProtoArgs ==
  { cBGP, cOSPF, <<"B","G","P">>, <<"O","s","p","F">>, <<"r","i","p">>,
    << >>, cBGP \o Sp }

\* arguments handed to Ping._run
PingArgs == { << >>, <<"1",".","1">> }

\* arguments handed to IfaceConfig._run
IfaceConfigArgs ==
  { cGI1 \o Sp \o cSHUTDOWN,
    cGI1 \o Sp \o <<"n","o">> \o cSHUTDOWN,
    cGI1 \o Sp \o <<"S","H","U","T">>,
    cGI2 \o Sp \o cSHUTDOWN,
    cGI2 \o Sp \o <<"n","o">> \o Sp \o cSHUTDOWN,
    Sp \o cGI1 \o Sp \o Sp \o cSHUTDOWN \o Sp \o <<"n","o","w">> \o Sp,
    << >>,
    Sp \o Sp,
    cGI1 }

\* interfaces of the device
IfaceNames == { cGI1, cGI2 }

\* outputs the device gives to a read-only command
RawOutputs == { << >>, <<"o","k">> }

\* outputs the device gives to `show version`
VersionSamples ==
  { cEXAMPLE, cVERSION \o <<",">>, <<"I","O","S">> }

----------------------------------------------------------------------------
(* Exceptions and results *)

NoExc == [kind |-> "none", msg |-> ""]

\* ValueError raised by unpacking fewer than two values
UnpackError == [kind |-> "ValueError", msg |-> "not enough values to unpack"]

\* exceptions the session layer raises (all are subclasses of Exception)
SessionFailures ==
  { [kind |-> "ValueError", msg |-> "Failed to enter enable mode."],
    [kind |-> "NetmikoTimeoutException", msg |-> "TCP connection to device failed."] }

NoResult ==
  [marker |-> "none", msg |-> "", iface |-> << >>, desired |-> "", raw |-> << >>]

\* f"[ERROR] {e}"
ErrorResult(e) ==
  [marker |-> "[ERROR] ", msg |-> e.msg, iface |-> << >>, desired |-> "", raw |-> << >>]

\* "[ERROR] input format: '<iface> shutdown|noshutdown'"
FormatError ==
  [marker |-> "[ERROR] ", msg |-> "input format: '<iface> shutdown|noshutdown'",
   iface |-> << >>, desired |-> "", raw |-> << >>]

\* "[ERROR] proto must be 'bgp' or 'ospf'"
ProtoError ==
  [marker |-> "[ERROR] ", msg |-> "proto must be 'bgp' or 'ospf'",
   iface |-> << >>, desired |-> "", raw |-> << >>]

\* f"[SKIP] {iface} ... {desired} ..." (already in that state)
SkipResult(i, d) ==
  [marker |-> "[SKIP] ", msg |-> "already", iface |-> i, desired |-> d, raw |-> << >>]

\* f"[OK] {iface} ... {desired} ..." (state applied)
OkResult(i, d) ==
  [marker |-> "[OK] ", msg |-> "applied", iface |-> i, desired |-> d, raw |-> << >>]

\* a device text returned as it is
Verbatim(text) ==
  [marker |-> "", msg |-> "", iface |-> << >>, desired |-> "", raw |-> text]

\* ExceptClauses without the catch-all clause
ExceptClauses_narrow(t) == << "ValueError" >>

\* the except clauses of a tool's _run, in order
ExceptClauses(t) ==
  IF t = "IfaceConfig" THEN << "ValueError", "Exception" >> ELSE << "Exception" >>

\* `except clause` catches an exception of this kind
Catches(clause, kind) == clause = "Exception" \/ clause = kind

\* the string the first matching except clause returns; no clause: it escapes
Handle(t, e) ==
  LET cs == ExceptClauses(t) IN
  IF \E i \in 1..Len(cs) : Catches(cs[i], e.kind)
    THEN LET i == CHOOSE i \in 1..Len(cs) :
                    Catches(cs[i], e.kind) /\ \A j \in 1..(i-1) : ~Catches(cs[j], e.kind)
         IN  [escaped |-> FALSE,
              result  |-> IF cs[i] = "ValueError" THEN FormatError ELSE ErrorResult(e)]
    ELSE [escaped |-> TRUE, result |-> NoResult]

----------------------------------------------------------------------------
(* Calls on the session *)

send_command(text, a) == [op |-> "send_command", text |-> text, arg |-> a]
enable           == [op |-> "enable", text |-> "", arg |-> << >>]
config_mode      == [op |-> "config_mode", text |-> "", arg |-> << >>]
exit_config_mode == [op |-> "exit_config_mode", text |-> "", arg |-> << >>]

\* command of GetRouteTable
RouteTableCmd(protocol) ==
  IF Lower(protocol) # cIPV6 THEN "show ip route" ELSE "show ipv6 route"

\* RouteProtoCmd without the lower-casing
RouteProtoCmd_caseSensitive(proto) ==
  IF proto = cBGP THEN "show ip bgp summary"
  ELSE IF proto = cOSPF THEN "show ip ospf neighbor"
  ELSE ""

\* _cmd_map.get(proto.lower()); "" for None
RouteProtoCmd(proto) ==
  IF Lower(proto) = cBGP THEN "show ip bgp summary"
  ELSE IF Lower(proto) = cOSPF THEN "show ip ospf neighbor"
  ELSE ""

\* Desired without the lower-casing
Desired_caseSensitive(action) ==
  IF StartsWith(action, cSHUT) THEN "shutdown" ELSE "no shutdown"

\* desired = "shutdown" if action.lower().startswith("shut") else "no shutdown"
Desired(action) ==
  IF StartsWith(Lower(action), cSHUT) THEN "shutdown" ELSE "no shutdown"

\* Already with the comparison inverted (!= for ==)
Already_negated(cfg, d) == Contains(cfg, cSHUTDOWN) # (d = "shutdown")

\* Already without the comparison with desired
Already_noCompare(cfg, d) == Contains(cfg, cSHUTDOWN)

\* ("shutdown" in current_cfg) == (desired == "shutdown")
Already(cfg, d) == Contains(cfg, cSHUTDOWN) = (d = "shutdown")

----------------------------------------------------------------------------
(* State *)

VARIABLES
  pc,           \* position of the running _run: idle, connect, send, show_run,
                \* enable, config_mode, interface, desired, exit_config_mode,
                \* exit (leaving the with block), returned
  tool,         \* name of the tool invoked last
  arg,          \* its argument (the default when none was given)
  argGiven,     \* FALSE when the default argument was used
  iface,        \* IfaceConfig: iface
  desired,      \* IfaceConfig: desired
  cmd,          \* read-only tools: the command text
  sessOpen,     \* a session to the device is open
  opened,       \* sessions opened by this invocation
  closed,       \* sessions closed by this invocation
  sent,         \* calls made on the session by this invocation, in order
  mode,         \* CLI mode of the session on the device
  sel,          \* interface selected in configuration mode
  shut,         \* device: interface is administratively down
  shut0,        \* shut when the invocation began
  current_cfg,  \* IfaceConfig: output of `show run interface`
  cfgRead,      \* IfaceConfig: current_cfg has been read
  output,       \* output of the read-only command
  result,       \* string returned by _run
  exc,          \* exception in flight
  escaped,      \* an exception left _run
  run           \* successful IfaceConfig calls in a row with one argument

vars ==
  << pc, tool, arg, argGiven, iface, desired, cmd, sessOpen, opened, closed,
     sent, mode, sel, shut, shut0, current_cfg, cfgRead, output, result, exc,
     escaped, run >>

EmptyRun == [arg |-> << >>, len |-> 0, oks |-> 0, changes |-> 0]

\* the run of successful same-argument IfaceConfig calls after one more return
RunAfter(r, a, res, changed) ==
  IF res.marker \in {"[OK] ", "[SKIP] "}
    THEN LET ok == IF res.marker = "[OK] " THEN 1 ELSE 0
             ch == IF changed THEN 1 ELSE 0
         IN  IF r.len > 0 /\ r.arg = a
               THEN [arg |-> a, len |-> r.len + 1, oks |-> r.oks + ok,
                     changes |-> r.changes + ch]
               ELSE [arg |-> a, len |-> 1, oks |-> ok, changes |-> ch]
    ELSE EmptyRun

\* device: text of `show run interface <i>`
ShowRunInterface(i, sh) ==
  cINTERFACE \o i \o <<"\n">>
    \o (IF i \in DOMAIN sh /\ sh[i] THEN Sp \o cSHUTDOWN \o <<"\n">> ELSE << >>)
    \o <<"e","n","d">>

\* device: interface state after `shutdown` / `no shutdown` in interface mode
ApplyDesired(sh, m, i, d) ==
  IF m = "config-if" /\ i \in DOMAIN sh
    THEN [sh EXCEPT ![i] = (d = "shutdown")]
    ELSE sh

Init ==
  /\ pc = "idle"
  /\ tool = "none"
  /\ arg = << >>
  /\ argGiven = FALSE
  /\ iface = << >>
  /\ desired = ""
  /\ cmd = ""
  /\ sessOpen = FALSE
  /\ opened = 0
  /\ closed = 0
  /\ sent = << >>
  /\ mode = "closed"
  /\ sel = << >>
  /\ shut \in [IfaceNames -> BOOLEAN]
  /\ shut0 = shut
  /\ current_cfg = << >>
  /\ cfgRead = FALSE
  /\ output = << >>
  /\ result = NoResult
  /\ exc = NoExc
  /\ escaped = FALSE
  /\ run = EmptyRun

----------------------------------------------------------------------------
(* Entering a tool's _run *)

\* a new invocation starts; nothing is left over from the previous one
Begin(t, a, given) ==
  /\ pc \in {"idle", "returned"}
  /\ tool' = t
  /\ arg' = a
  /\ argGiven' = given
  /\ opened' = 0
  /\ closed' = 0
  /\ sent' = << >>
  /\ exc' = NoExc
  /\ current_cfg' = << >>
  /\ cfgRead' = FALSE
  /\ output' = << >>
  /\ shut0' = shut
  /\ UNCHANGED << sessOpen, mode, sel, shut >>

GetVersion_run ==
  /\ Begin("GetVersion", << >>, FALSE)
  /\ cmd' = "show version"
  /\ pc' = "connect"
  /\ result' = NoResult
  /\ escaped' = FALSE
  /\ iface' = << >> /\ desired' = ""
  /\ UNCHANGED run

GetRouteTable_run ==
  \E given \in BOOLEAN : \E a \in RouteTableArgs :
    LET protocol == IF given THEN a ELSE cIPV4 IN
    /\ Begin("GetRouteTable", protocol, given)
    /\ cmd' = RouteTableCmd(protocol)
    /\ pc' = "connect"
    /\ result' = NoResult
    /\ escaped' = FALSE
    /\ iface' = << >> /\ desired' = ""
    /\ UNCHANGED run

GetRouteProtoState_run ==
  \E given \in BOOLEAN : \E a \in RouteProtoArgs :
    LET proto == IF given THEN a ELSE cBGP IN
    /\ Begin("GetRouteProtoState", proto, given)
    /\ cmd' = RouteProtoCmd(proto)
    /\ IF RouteProtoCmd(proto) = ""
         THEN pc' = "returned" /\ result' = ProtoError
         ELSE pc' = "connect" /\ result' = NoResult
    /\ escaped' = FALSE
    /\ iface' = << >> /\ desired' = ""
    /\ UNCHANGED run

Ping_run ==
  \E target \in PingArgs :
    /\ Begin("Ping", target, TRUE)
    /\ cmd' = "ping "
    /\ pc' = "connect"
    /\ result' = NoResult
    /\ escaped' = FALSE
    /\ iface' = << >> /\ desired' = ""
    /\ UNCHANGED run

IfaceConfig_run ==
  \E command \in IfaceConfigArgs :
    LET parts == SplitMax1(command) IN
    /\ run.len < MaxRun
    /\ Begin("IfaceConfig", command, TRUE)
    /\ cmd' = ""
    /\ IF Len(parts) # 2
         THEN LET h == Handle("IfaceConfig", UnpackError) IN
              /\ pc' = "returned"
              /\ result' = h.result
              /\ escaped' = h.escaped
              /\ iface' = << >> /\ desired' = ""
              /\ run' = RunAfter(run, command, h.result, FALSE)
         ELSE /\ pc' = "connect"
              /\ result' = NoResult
              /\ escaped' = FALSE
              /\ iface' = parts[1]
              /\ desired' = Desired(parts[2])
              /\ UNCHANGED run

----------------------------------------------------------------------------
(* The with block: opening the session, the calls on it, leaving it *)

\* CurrentCall with config_mode() called before enable()
CurrentCall_swapped ==
  CASE pc = "send"             -> send_command(cmd, IF tool = "Ping" THEN arg ELSE << >>)
    [] pc = "show_run"         -> send_command("show run interface ", iface)
    [] pc = "enable"           -> config_mode
    [] pc = "config_mode"      -> enable
    [] pc = "interface"        -> send_command("interface ", iface)
    [] pc = "desired"          -> send_command(desired, << >>)
    [] pc = "exit_config_mode" -> exit_config_mode

\* the call the running _run makes next on its session
CurrentCall ==
  CASE pc = "send"             -> send_command(cmd, IF tool = "Ping" THEN arg ELSE << >>)
    [] pc = "show_run"         -> send_command("show run interface ", iface)
    [] pc = "enable"           -> enable
    [] pc = "config_mode"      -> config_mode
    [] pc = "interface"        -> send_command("interface ", iface)
    [] pc = "desired"          -> send_command(desired, << >>)
    [] pc = "exit_config_mode" -> exit_config_mode

BodySteps ==
  { "send", "show_run", "enable", "config_mode", "interface", "desired",
    "exit_config_mode" }

\* the run of IfaceConfig calls once this invocation returns res
RunOnReturn(res, sh) ==
  IF tool = "IfaceConfig" THEN RunAfter(run, arg, res, sh # shut0) ELSE run

\* ConnectHandler(...) succeeds: __enter__ hands the open session to the body
ConnectHandler ==
  /\ pc = "connect"
  /\ sessOpen' = TRUE
  /\ opened' = opened + 1
  /\ mode' = "exec"
  /\ sel' = << >>
  /\ pc' = IF tool = "IfaceConfig" THEN "show_run" ELSE "send"
  /\ UNCHANGED << tool, arg, argGiven, iface, desired, cmd, closed, sent, shut,
                  shut0, current_cfg, cfgRead, output, result, exc, escaped, run >>

\* ConnectHandler(...) raises: no session exists, the except clause returns
ConnectFails ==
  \E e \in SessionFailures :
    LET h == Handle(tool, e) IN
    /\ pc = "connect"
    /\ exc' = e
    /\ result' = h.result
    /\ escaped' = h.escaped
    /\ pc' = "returned"
    /\ run' = RunOnReturn(h.result, shut)
    /\ UNCHANGED << tool, arg, argGiven, iface, desired, cmd, sessOpen, opened,
                    closed, sent, mode, sel, shut, shut0, current_cfg, cfgRead,
                    output >>

\* a call on the session raises; the with block is left with the exception.
\* A failing `shutdown` / `no shutdown` may or may not have reached the device.
CallFails ==
  \E e \in SessionFailures :
    /\ pc \in BodySteps
    /\ sent' = Append(sent, CurrentCall)
    /\ exc' = e
    /\ pc' = "exit"
    /\ IF pc = "desired"
         THEN shut' \in { shut, ApplyDesired(shut, mode, sel, desired) }
         ELSE shut' = shut
    /\ UNCHANGED << tool, arg, argGiven, iface, desired, cmd, sessOpen, opened,
                    closed, mode, sel, shut0, current_cfg, cfgRead, output,
                    result, escaped, run >>

\* read-only tools: conn.send_command(cmd)
SendCommand ==
  \E out \in (IF tool = "GetVersion" THEN VersionSamples ELSE RawOutputs) :
    /\ pc = "send"
    /\ sent' = Append(sent, CurrentCall)
    /\ output' = out
    /\ result' = IF tool = "GetVersion" THEN result ELSE Verbatim(out)
    /\ pc' = "exit"
    /\ UNCHANGED << tool, arg, argGiven, iface, desired, cmd, sessOpen, opened,
                    closed, mode, sel, shut, shut0, current_cfg, cfgRead, exc,
                    escaped, run >>

\* IfaceConfig: current_cfg = conn.send_command(f"show run interface {iface}")
\* and the early return when the interface is already in the desired state
ShowRun ==
  LET cfg == ShowRunInterface(iface, shut) IN
  /\ pc = "show_run"
  /\ sent' = Append(sent, CurrentCall)
  /\ current_cfg' = cfg
  /\ cfgRead' = TRUE
  /\ IF Already(cfg, desired)
       THEN pc' = "exit" /\ result' = SkipResult(iface, desired)
       ELSE pc' = "enable" /\ result' = result
  /\ UNCHANGED << tool, arg, argGiven, iface, desired, cmd, sessOpen, opened,
                  closed, mode, sel, shut, shut0, output, exc, escaped, run >>

\* conn.enable()
Enable ==
  /\ pc = "enable"
  /\ sent' = Append(sent, CurrentCall)
  /\ mode' = "enable"
  /\ pc' = "config_mode"
  /\ UNCHANGED << tool, arg, argGiven, iface, desired, cmd, sessOpen, opened,
                  closed, sel, shut, shut0, current_cfg, cfgRead, output,
                  result, exc, escaped, run >>

\* conn.config_mode()
ConfigMode ==
  /\ pc = "config_mode"
  /\ sent' = Append(sent, CurrentCall)
  /\ mode' = IF mode = "enable" THEN "config" ELSE mode
  /\ pc' = "interface"
  /\ UNCHANGED << tool, arg, argGiven, iface, desired, cmd, sessOpen, opened,
                  closed, sel, shut, shut0, current_cfg, cfgRead, output,
                  result, exc, escaped, run >>

\* conn.send_command(f"interface {iface}")
SelectInterface ==
  /\ pc = "interface"
  /\ sent' = Append(sent, CurrentCall)
  /\ mode' = IF mode = "config" THEN "config-if" ELSE mode
  /\ sel' = IF mode = "config" THEN iface ELSE sel
  /\ pc' = "desired"
  /\ UNCHANGED << tool, arg, argGiven, iface, desired, cmd, sessOpen, opened,
                  closed, shut, shut0, current_cfg, cfgRead, output, result,
                  exc, escaped, run >>

\* conn.send_command(desired)
SendDesired ==
  /\ pc = "desired"
  /\ sent' = Append(sent, CurrentCall)
  /\ shut' = ApplyDesired(shut, mode, sel, desired)
  /\ pc' = "exit_config_mode"
  /\ UNCHANGED << tool, arg, argGiven, iface, desired, cmd, sessOpen, opened,
                  closed, mode, sel, shut0, current_cfg, cfgRead, output,
                  result, exc, escaped, run >>

\* conn.exit_config_mode() and the return of the [OK] string
ExitConfigMode ==
  /\ pc = "exit_config_mode"
  /\ sent' = Append(sent, CurrentCall)
  /\ mode' = "enable"
  /\ sel' = << >>
  /\ result' = OkResult(iface, desired)
  /\ pc' = "exit"
  /\ UNCHANGED << tool, arg, argGiven, iface, desired, cmd, sessOpen, opened,
                  closed, shut, shut0, current_cfg, cfgRead, output, exc,
                  escaped, run >>

\* SessionExit of a body that closes the session itself as its last
\* statement: a raising body leaves the session open
SessionExit_leak(open, e) == IF e = NoExc THEN FALSE ELSE open

\* __exit__ of the with block: the session is disconnected whether the body
\* returned or raised e; the value is whether the session is still open
SessionExit(open, e) == FALSE

\* __exit__ of the with block, then the return or the except clause
ExitSession ==
  LET h == IF exc # NoExc
             THEN Handle(tool, exc)
             ELSE [escaped |-> FALSE,
                   result  |-> IF tool = "GetVersion"
                                 THEN Verbatim(extract_version(output))
                                 ELSE result]
      stillOpen == SessionExit(sessOpen, exc)
  IN
  /\ pc = "exit"
  /\ sessOpen' = stillOpen
  /\ closed' = IF sessOpen /\ ~stillOpen THEN closed + 1 ELSE closed
  /\ mode' = IF stillOpen THEN mode ELSE "closed"
  /\ sel' = IF stillOpen THEN sel ELSE << >>
  /\ result' = h.result
  /\ escaped' = h.escaped
  /\ pc' = "returned"
  /\ run' = RunOnReturn(h.result, shut)
  /\ UNCHANGED << tool, arg, argGiven, iface, desired, cmd, opened, sent, shut,
                  shut0, current_cfg, cfgRead, output, exc >>

Next ==
  \/ GetVersion_run
  \/ GetRouteTable_run
  \/ GetRouteProtoState_run
  \/ Ping_run
  \/ IfaceConfig_run
  \/ ConnectHandler
  \/ ConnectFails
  \/ CallFails
  \/ SendCommand
  \/ ShowRun
  \/ Enable
  \/ ConfigMode
  \/ SelectInterface
  \/ SendDesired
  \/ ExitConfigMode
  \/ ExitSession

Spec == Init /\ [][Next]_vars

----------------------------------------------------------------------------
(* extract_version on its own: the input is any bounded `show version` text *)

InitExtract ==
  /\ pc = "idle"
  /\ tool = "extract_version"
  /\ arg = << >>
  /\ argGiven = FALSE
  /\ iface = << >>
  /\ desired = ""
  /\ cmd = ""
  /\ sessOpen = FALSE
  /\ opened = 0
  /\ closed = 0
  /\ sent = << >>
  /\ mode = "closed"
  /\ sel = << >>
  /\ shut = [i \in IfaceNames |-> FALSE]
  /\ shut0 = shut
  /\ current_cfg = << >>
  /\ cfgRead = FALSE
  /\ output \in VersionInputs
  /\ result = NoResult
  /\ exc = NoExc
  /\ escaped = FALSE
  /\ run = EmptyRun

\* return extract_version(output)
ExtractStep ==
  /\ pc = "idle"
  /\ tool = "extract_version"
  /\ result' = Verbatim(extract_version(output))
  /\ pc' = "returned"
  /\ UNCHANGED << tool, arg, argGiven, iface, desired, cmd, sessOpen, opened,
                  closed, sent, mode, sel, shut, shut0, current_cfg, cfgRead,
                  output, exc, escaped, run >>

NextExtract == ExtractStep

SpecExtract == InitExtract /\ [][NextExtract]_vars

----------------------------------------------------------------------------
(* Vocabulary of the properties, stated on the argument text itself *)

\* positions where a whitespace-separated token begins
TokenStarts(s) ==
  { i \in 1..Len(s) : ~IsSpace(s[i]) /\ (i = 1 \/ IsSpace(s[i-1])) }

TokenCount(s) == Cardinality(TokenStarts(s))

\* the token that begins at position i
TokenFrom(s, i) ==
  LET e == CHOOSE k \in i..Len(s) :
             /\ \A j \in i..k : ~IsSpace(s[j])
             /\ (k = Len(s) \/ IsSpace(s[k+1]))
  IN  SubSeq(s, i, e)

\* the n-th token (empty when there are fewer than n)
Token(s, n) ==
  IF TokenCount(s) < n THEN << >>
  ELSE LET i == CHOOSE i \in TokenStarts(s) :
                  Cardinality({ j \in TokenStarts(s) : j < i }) = n - 1
       IN  TokenFrom(s, i)

\* the action token asks for shutdown
WantsShutdown(s) == StartsWith(Lower(Token(s, 2)), cSHUT)

\* s is the beginning of t
IsPrefix(s, t) == Len(s) <= Len(t) /\ SubSeq(t, 1, Len(s)) = s

\* the calls of a state change of interface i to shutdown (sd) or no shutdown
MutationCalls(i, sd) ==
  << send_command("show run interface ", i),
     enable,
     config_mode,
     send_command("interface ", i),
     send_command(IF sd THEN "shutdown" ELSE "no shutdown", << >>),
     exit_config_mode >>

\* the `show run interface` text shows the state the argument asks for
ShowsDesired(cfg, s) == Contains(cfg, cSHUTDOWN) <=> WantsShutdown(s)

----------------------------------------------------------------------------
(* Properties *)

\* C1: IfaceConfig short circuit.  Once `show run interface <iface>` has
\* shown the interface in the state asked for, the only call ever made on the
\* session is that read (no enable, config_mode, interface, shutdown / no
\* shutdown, exit_config_mode), the interface state is what it was when the
\* invocation began, and the invocation returns a [SKIP] string; a second
\* such invocation in a row changes nothing either.
C1_ShortCircuit ==
  (tool = "IfaceConfig" /\ cfgRead /\ ShowsDesired(current_cfg, arg))
    => /\ sent = << send_command("show run interface ", Token(arg, 1)) >>
       /\ shut = shut0
       /\ pc \in {"exit", "returned"}
       /\ result.marker = "[SKIP] "
       /\ (pc = "returned" /\ run.len >= 2 /\ run.oks = 0 => run.changes = 0)

C1_Witness ==
  /\ tool = "IfaceConfig" /\ pc = "returned"
  /\ WantsShutdown(arg) /\ ShowsDesired(current_cfg, arg) /\ cfgRead
  /\ result.marker = "[SKIP] "
  /\ run.len = 2 /\ run.oks = 0

\* C2: IfaceConfig mutation path.  The calls on the session are always a
\* beginning of: show run interface <iface>, enable, config_mode,
\* interface <iface>, shutdown or no shutdown as asked, exit_config_mode (so
\* nothing precedes the state read); when the read shows the interface not in
\* the state asked for and nothing fails, the invocation returns with exactly
\* that whole sequence sent and an [OK] string naming the interface.
C2_MutationPath ==
  (tool = "IfaceConfig" /\ TokenCount(arg) >= 2)
    => /\ IsPrefix(sent, MutationCalls(Token(arg, 1), WantsShutdown(arg)))
       /\ (pc = "returned" /\ exc = NoExc /\ cfgRead
             /\ ~ShowsDesired(current_cfg, arg))
            => /\ sent = MutationCalls(Token(arg, 1), WantsShutdown(arg))
               /\ result.marker = "[OK] "
               /\ result.iface = Token(arg, 1)

C2_Witness ==
  /\ tool = "IfaceConfig" /\ pc = "returned" /\ exc = NoExc
  /\ arg = cGI1 \o Sp \o cSHUTDOWN
  /\ ~Contains(current_cfg, cSHUTDOWN) /\ cfgRead
  /\ Len(sent) = 6
  /\ result.marker = "[OK] "

\* C3: session lifecycle.  An invocation opens at most one session, a
\* session is open exactly while it has been opened and not yet closed, and
\* once the invocation has returned (normally, by the early SKIP return, or
\* after a failure at any point) every session it opened has been closed
\* exactly once and none is open.
C3_SessionLifecycle ==
  /\ opened <= 1
  /\ closed <= opened
  /\ sessOpen <=> (opened = closed + 1)
  /\ pc \in {"idle", "returned"} => (~sessOpen /\ closed = opened)

C3_Witness ==
  /\ tool = "IfaceConfig" /\ pc = "returned"
  /\ exc # NoExc /\ Len(sent) = 4
  /\ opened = 1 /\ closed = 1 /\ ~sessOpen

\* C4: in-band errors.  No exception ever leaves a tool's _run; a returned
\* invocation has returned a string; and when opening the session, a call on
\* it, or parsing the argument failed, that string carries the "[ERROR] "
\* marker.
C4_InBandErrors ==
  /\ ~escaped
  /\ pc = "returned" => result # NoResult
  /\ (pc = "returned"
        /\ (exc # NoExc \/ (tool = "IfaceConfig" /\ TokenCount(arg) < 2)))
       => result.marker = "[ERROR] "

C4_Witness ==
  /\ tool = "Ping" /\ pc = "returned"
  /\ exc.kind = "NetmikoTimeoutException" /\ opened = 0
  /\ result.marker = "[ERROR] "

\* C5: RouteProto validation.  An argument whose lower-cased value is neither
\* bgp nor ospf returns the validation error at once, with no session opened
\* and nothing sent; bgp (the default when no argument is given) sends only
\* `show ip bgp summary`, ospf only `show ip ospf neighbor`, in any letter
\* case, and a return without failure gives the device output as it is.
C5_RouteProto ==
  tool = "GetRouteProtoState"
    => LET l == Lower(arg)
           c == IF l = cBGP THEN "show ip bgp summary" ELSE "show ip ospf neighbor"
       IN  /\ ~argGiven => arg = cBGP
           /\ l \notin {cBGP, cOSPF}
                => /\ pc = "returned" /\ result = ProtoError
                   /\ opened = 0 /\ ~sessOpen /\ sent = << >>
           /\ l \in {cBGP, cOSPF}
                => /\ IsPrefix(sent, << send_command(c, << >>) >>)
                   /\ (pc = "returned" /\ exc = NoExc)
                        => /\ sent = << send_command(c, << >>) >>
                           /\ result = Verbatim(output)

C5_Witness ==
  /\ tool = "GetRouteProtoState" /\ pc = "returned"
  /\ arg = <<"r","i","p">>
  /\ result.marker = "[ERROR] " /\ opened = 0

\* C6: Ping validation.  Ping with an empty target opens no session, sends
\* nothing, and returns a validation error string.
C6_PingEmptyTarget ==
  (tool = "Ping" /\ arg = << >>)
    => /\ opened = 0
       /\ sent = << >>
       /\ pc = "returned" => result.marker = "[ERROR] "

\* C7 as stated: an IfaceConfig argument with a token count other than two
\* returns the input-format error with no session opened; with two tokens the
\* desired state is shutdown iff the action starts with "shut" in any case.
C7_ExactlyTwoTokens ==
  tool = "IfaceConfig"
    => /\ TokenCount(arg) # 2
            => (pc = "returned" /\ result = FormatError /\ opened = 0)
       /\ TokenCount(arg) = 2
            => (desired = "shutdown" <=> WantsShutdown(arg))

\* C7 amended: an IfaceConfig argument with fewer than two tokens returns the
\* input-format error with no session opened and nothing sent; with two or
\* more tokens the interface is the first token and the desired state is
\* shutdown iff the second token starts with "shut" in any case, otherwise no
\* shutdown (tokens after the second do not make the argument malformed).
C7_AtLeastTwoTokens ==
  tool = "IfaceConfig"
    => /\ TokenCount(arg) < 2
            => /\ pc = "returned" /\ result = FormatError
               /\ opened = 0 /\ ~sessOpen /\ sent = << >>
       /\ TokenCount(arg) >= 2
            => /\ iface = Token(arg, 1)
               /\ desired = (IF WantsShutdown(arg) THEN "shutdown" ELSE "no shutdown")
               /\ (pc = "returned" /\ exc = NoExc) => result # FormatError

C7_Witness ==
  /\ tool = "IfaceConfig" /\ pc = "returned"
  /\ TokenCount(arg) = 3 /\ WantsShutdown(arg)
  /\ result.marker = "[OK] " /\ opened = 1

\* C9: IfaceConfig convergence.  In a run of successful IfaceConfig calls
\* with one argument on a device nothing else changes, at most one call
\* returned [OK] and the interface state changed at most once; every call
\* after the first returned [SKIP], made no call but the state read and left
\* the state alone; and after each successful call the interface is in the
\* state asked for.
C9_Convergence ==
  /\ run.oks <= 1
  /\ run.changes <= 1
  /\ (tool = "IfaceConfig" /\ pc = "returned"
        /\ result.marker \in {"[OK] ", "[SKIP] "})
       => /\ shut[Token(arg, 1)] = WantsShutdown(arg)
          /\ run.len >= 2
               => /\ result.marker = "[SKIP] "
                  /\ sent = << send_command("show run interface ", Token(arg, 1)) >>
                  /\ shut = shut0

C9_Witness ==
  /\ tool = "IfaceConfig" /\ pc = "returned"
  /\ run.len = 3 /\ run.oks = 1 /\ run.changes = 1
  /\ result.marker = "[SKIP] "

\* C10: IfaceConfig error classification.  The input-format error is returned
\* only for a malformed argument, and a failure of the session layer is
\* returned as "[ERROR] " followed by that failure's own message, whatever
\* its kind.
C10_ErrorClassification ==
  (tool = "IfaceConfig" /\ pc = "returned")
    => /\ result = FormatError => TokenCount(arg) # 2
       /\ exc # NoExc => result = ErrorResult(exc)

\* the line of text s that holds position p: from after the previous line
\* break to before the next one
LineAround(s, p) ==
  LET a == CHOOSE a \in 1..p :
             /\ \A k \in a..p : ~IsLineBreak(s[k])
             /\ (a = 1 \/ IsLineBreak(s[a-1]))
      b == CHOOSE b \in p..Len(s) :
             /\ \A k \in p..b : ~IsLineBreak(s[k])
             /\ (b = Len(s) \/ IsLineBreak(s[b+1]))
  IN  SubSeq(s, a, b)

\* the first line of s that contains "Version" (s must contain it)
FirstVersionLine(s) ==
  LET p == CHOOSE p \in 1..(Len(s) - 6) :
             /\ SubSeq(s, p, p + 6) = cVERSION
             /\ \A q \in 1..(p-1) : SubSeq(s, q, q + 6) # cVERSION
  IN  LineAround(s, p)

\* the tokens a match of  Version \s+ ([A-Za-z0-9.()]+)  in line can capture:
\* "Version" at i, whitespace from i+7 up to j-1, class characters j..k, and
\* the capture is not extended by a further class character
Captures(line) ==
  { SubSeq(line, j, k) :
      <<j, k>> \in { jk \in (1..Len(line)) \X (1..Len(line)) :
                       /\ jk[1] <= jk[2]
                       /\ \E i \in 1..(Len(line) - 6) :
                            /\ SubSeq(line, i, i + 6) = cVERSION
                            /\ i + 7 < jk[1]
                            /\ \A w \in (i+7)..(jk[1]-1) : IsSpace(line[w])
                       /\ \A c \in jk[1]..jk[2] : IsClassChar(line[c])
                       /\ (jk[2] = Len(line) \/ ~IsClassChar(line[jk[2]+1])) } }

\* C8: extract_version.  For every text, the value is decided by the first
\* line that contains "Version": the token captured after "Version" and
\* whitespace when that line matches, else that whole line trimmed (whatever
\* later lines hold); the sentinel "[Version line not found]" when no line
\* contains "Version"; and never the empty string when one does.
C8_ExtractVersion ==
  (tool = "extract_version" /\ pc = "returned")
    => IF Contains(output, cVERSION)
         THEN LET line == FirstVersionLine(output) IN
              /\ result.raw # << >>
              /\ IF Captures(line) # {}
                   THEN result.raw \in Captures(line)
                   ELSE result.raw = Strip(line)
         ELSE result.raw = cNOTFOUND

C8_Witness ==
  /\ tool = "extract_version" /\ pc = "returned"
  /\ output = cVERSION \o <<"\n">> \o cVERSION \o Sp \o cTOKEN
  /\ result.raw = cVERSION

====
